---- MODULE Spec2Model ----
(***************************************************************************)
(* The turn workflow of BobAgent (src/src/agent.py), its state helpers     *)
(* (src/src/state.py) and the degradation / retry layer                    *)
(* (src/src/bob_langgraph_agent/error_handling.py), for one agent and one  *)
(* conversation thread.                                                    *)
(*                                                                         *)
(* A workflow invocation is a sequence of node visits; each node reads the *)
(* thread's channel values and returns a patch that is merged into them    *)
(* (messages through the add_messages reducer, every other key by          *)
(* replacement) before the outgoing conditional edge is evaluated.         *)
(***************************************************************************)
EXTENDS Integers, Sequences, FiniteSets, TLC

\* ---------------------------------------------------------------- bounds
\* Facade calls (chat / stream_chat) issued in one behaviour.
MaxTurns == 4
\* Largest config.max_iterations the agent may be constructed with.
MaxMaxIterations == 2
\* The model answers its first k calls of an invocation with a tool-call
\* request, k <= MaxToolRounds, and every later call in one fixed way.
MaxToolRounds == 1
\* retry_config.max_retries of the agent.
MaxRetries == 1
\* Largest iteration_count drawn for the stand-alone node specification.
MaxIterationCount == 3
\* A facade call is issued only on a thread holding at most this many messages.
MaxStartMessages == 3
\* Node visits of an invocation that the recorded path keeps.
MaxPathLen == 7
\* Largest max_retries of a RetryConfig handed to an ErrorHandler.
MaxHandlerRetries == 2
\* A primary operation fails on its first k calls, k <= MaxFailures.
MaxFailures == 3
\* Largest attempt index calculate_delay is asked about.
MaxAttemptIndex == 7
\* The jitter drawn is k / JitterParts of its range, k in 0..JitterParts.
JitterParts == 2
\* Longest conversation of a thread the history specification starts from.
MaxHistoryLen == 22
\* Largest max_messages truncate_conversation_history is called with.
MaxTruncate == 6
\* Messages after the user's one in the result chat extracts its value from.
MaxExtractLen == 3
\* Calls of the degradation manager each parallel caller makes.
MaxParallelOps == 2
\* chat calls each parallel caller makes on the one thread.
MaxParallelTurns == 2

\* ------------------------------------------------------ program constants
\* "recursion_limit": 50 of chat and stream_chat.
RecursionLimit == 50
\* GracefulDegradation.max_degradation_level.
max_degradation_level == 3
\* config.max_conversation_history (default of the configuration).
max_conversation_history == 20
\* RetryConfig.exponential_base.
exponential_base == 2
\* get_simplified_response echoes user_input[:50].
EchoLength == 50

Null == "<None>"
UserMessages == {"", "hi"}
LlmOutcomes == {"text", "tool", "fail"}
\* How the model behaves during one invocation.
Scripts == [tools : 0..MaxToolRounds, then : LlmOutcomes]
Recovered == [tools |-> 0, then |-> "text"]
Nodes == {"process_input", "advanced_processing", "generate_response",
          "tools", "update_state"}

CONTINUE == "continue"
END_CONVERSATION == "end"

\* ------------------------------------------------------------- messages
HumanMessage(i, c) == [id |-> i, type |-> "human", content |-> c, tool_calls |-> 0]
AIMessage(i, c, n) == [id |-> i, type |-> "ai", content |-> c, tool_calls |-> n]
ToolMessage(i, c)  == [id |-> i, type |-> "tool", content |-> c, tool_calls |-> 0]

\* agent_response is None, a message object, or a plain string.
NoResponse == [kind |-> "none", id |-> 0, content |-> "", tool_calls |-> 0]
MsgResponse(m) == [kind |-> "msg", id |-> m.id, content |-> m.content,
                   tool_calls |-> m.tool_calls]
StrResponse(c) == [kind |-> "str", id |-> 0, content |-> c, tool_calls |-> 0]

\* Python truthiness of user_input and of agent_response.
HasInput(s) == s.user_input # Null /\ s.user_input # ""
HasResponse(s) ==
    \/ s.agent_response.kind = "msg"
    \/ s.agent_response.kind = "str" /\ s.agent_response.content # ""

IndexOfId(msgs, i) ==
    IF \E k \in 1..Len(msgs) : msgs[k].id = i
    THEN CHOOSE k \in 1..Len(msgs) : msgs[k].id = i
    ELSE 0

\* add_messages: a message whose id is already in the list replaces the
\* entry with that id in place, any other message is appended.
RECURSIVE MergeById(_, _)
MergeById(left, right) ==
    IF right = <<>> THEN left
    ELSE LET m == Head(right)
             k == IndexOfId(left, m.id)
         IN MergeById(IF k = 0 THEN Append(left, m)
                      ELSE [left EXCEPT ![k] = m],
                      Tail(right))

\* A messages channel without a reducer: the returned list replaces.
add_messages_replace(left, right) == right

\* When right starts with left itself, its first Len(left) entries replace
\* themselves and only the rest has to be merged.
add_messages(left, right) ==
    IF Len(right) >= Len(left) /\ SubSeq(right, 1, Len(left)) = left
    THEN MergeById(left, SubSeq(right, Len(left) + 1, Len(right)))
    ELSE MergeById(left, right)

\* ------------------------------------------------------- state helpers
\* {**a, **b} and {k: v, **b}: the later entry wins.
DictUpdate(a, b) ==
    [k \in (DOMAIN a) \cup (DOMAIN b) |-> IF k \in DOMAIN b THEN b[k] ELSE a[k]]

\* The merge of a node's returned dict into the channel values: messages go
\* through the add_messages reducer, every other returned key replaces.
ApplyPatch(s, p) ==
    [k \in DOMAIN s |->
        IF k \in DOMAIN p
        THEN IF k = "messages" THEN add_messages(s.messages, p.messages) ELSE p[k]
        ELSE s[k]]

EmptyContext == [truncated |-> FALSE, original_message_count |-> 0,
                 analysed |-> FALSE, planned |-> FALSE]

\* A thread without a checkpoint (get_state(...).values is empty).
NoState ==
    [exists |-> FALSE, messages |-> <<>>, user_input |-> Null,
     agent_response |-> NoResponse, iteration_count |-> 0,
     should_end |-> FALSE, continue_conversation |-> FALSE,
     context |-> EmptyContext, metadata_ok |-> TRUE, total_messages |-> 0,
     last_error |-> Null, retry_count |-> 0]

\* An initial state whose metadata lacks conversation_id.
create_initial_state_partial_metadata(user_input) ==
    [exists |-> TRUE, messages |-> <<>>, user_input |-> user_input,
     agent_response |-> NoResponse, iteration_count |-> 0,
     should_end |-> FALSE, continue_conversation |-> FALSE,
     context |-> EmptyContext, metadata_ok |-> FALSE, total_messages |-> 0,
     last_error |-> Null, retry_count |-> 0]

create_initial_state(user_input) ==
    [exists |-> TRUE, messages |-> <<>>, user_input |-> user_input,
     agent_response |-> NoResponse, iteration_count |-> 0,
     should_end |-> FALSE, continue_conversation |-> FALSE,
     context |-> EmptyContext, metadata_ok |-> TRUE, total_messages |-> 0,
     last_error |-> Null, retry_count |-> 0]

\* messages is a list of messages by construction; the checks left are the
\* sign of iteration_count and the required metadata fields.
validate_state(s) == s.iteration_count >= 0 /\ s.metadata_ok

update_metadata(s) == [s EXCEPT !.total_messages = Len(s.messages)]

\* The first n elements in place of the last n.
FirstSlice(seq, n) ==
    IF n >= Len(seq) THEN seq ELSE SubSeq(seq, 1, n)

\* Python's seq[-n:] for n >= 0 (seq[-0:] is the whole sequence).
LastSlice(seq, n) ==
    IF n = 0 \/ n >= Len(seq) THEN seq
    ELSE SubSeq(seq, Len(seq) - n + 1, Len(seq))

truncate_conversation_history(s, max_messages) ==
    IF Len(s.messages) > max_messages
    THEN LET truncated ==
                 IF Len(s.messages) > 1
                 THEN <<s.messages[1]>> \o LastSlice(s.messages, max_messages - 1)
                 ELSE LastSlice(s.messages, max_messages)
         IN [s EXCEPT !.messages = truncated,
                      !.context.truncated = TRUE,
                      !.context.original_message_count = Len(s.messages)]
    ELSE s

handle_state_error(s, error) ==
    [s EXCEPT !.last_error = error, !.retry_count = @ + 1]

\* reset_error_state that leaves the error annotation in place.
reset_error_state_keep(s) == s

reset_error_state(s) == [s EXCEPT !.last_error = Null, !.retry_count = 0]

\* ------------------------------------------------------- degradation
\* increase_degradation without the bound check.
increase_degradation_unclamped(lvl) == lvl + 1

increase_degradation(lvl) ==
    IF lvl < max_degradation_level THEN lvl + 1 ELSE lvl

\* decrease_degradation without the bound check.
decrease_degradation_unclamped(lvl) == lvl - 1

decrease_degradation(lvl) == IF lvl > 0 THEN lvl - 1 ELSE lvl

should_use_tools(lvl) == lvl < 2

should_use_advanced_features(lvl) == lvl < 1

\* get_simplified_response builds the whole table of responses on every
\* call, so user_input[:50] is evaluated at every level: a None input raises
\* TypeError.  The result is the text (Null for level 0's None).
SimplifiedText(lvl) ==
    CASE lvl = 0 -> Null
      [] lvl = 1 -> "technical difficulties, partial echo"
      [] lvl = 2 -> "try rephrasing"
      [] OTHER   -> "technical issues, try later"

\* The whole input in place of its first 50 characters.
Echo_whole(user_input) == user_input

\* user_input[:50]
Echo(user_input) ==
    SubSeq(user_input, 1,
           IF Len(user_input) < EchoLength THEN Len(user_input) ELSE EchoLength)

\* `echo` is the part of the input the returned text quotes.
get_simplified_response(lvl, user_input) ==
    IF user_input = Null
    THEN [raised |-> TRUE, text |-> Null, echo |-> ""]
    ELSE [raised |-> FALSE, text |-> SimplifiedText(lvl),
          echo |-> IF lvl = 1 THEN Echo(user_input) ELSE ""]

\* ------------------------------------------------------- workflow nodes
\* Each node operator gives the dict the node returns; `fresh` is the id
\* the message it creates receives.

process_input(s, fresh) ==
    IF ~validate_state(s)
    THEN handle_state_error(s, "Invalid state detected in process_input")
    ELSE IF HasInput(s)
    THEN LET human_message == HumanMessage(fresh, s.user_input)
             updated_state ==
                 [messages |-> Append(s.messages, human_message),
                  iteration_count |-> s.iteration_count + 1,
                  user_input |-> Null]
         IN reset_error_state(
                truncate_conversation_history(
                    update_metadata(DictUpdate(s, updated_state)),
                    max_conversation_history))
    ELSE DictUpdate([iteration_count |-> s.iteration_count + 1],
                    update_metadata(s))

\* The conditional edge after process_input.
route_after_process_input(s) ==
    IF HasInput(s) THEN "advanced_processing" ELSE "generate_response"

\* advanced_processing returns only the context; update_metadata(state) in
\* it refreshes the metadata object of the state in place.
advanced_processing(s) ==
    [context |-> [s.context EXCEPT !.analysed = TRUE,
                                   !.planned = @ \/ HasInput(s)],
     total_messages |-> Len(s.messages)]

\* The model's answer to one call, by outcome.
LlmResponse(outcome, fresh) ==
    IF outcome = "tool" THEN AIMessage(fresh, "", 1)
    ELSE AIMessage(fresh, "reply", 0)

robust_generate(s, outcome, fresh) ==
    IF ~validate_state(s) \/ outcome = "fail"
    THEN [raised |-> TRUE, patch |-> <<>>]
    ELSE LET response == LlmResponse(outcome, fresh)
             result_dict == [agent_response |-> MsgResponse(response),
                             last_error |-> Null,
                             retry_count |-> 0]
         IN [raised |-> FALSE,
             patch |-> IF response.tool_calls > 0
                       THEN DictUpdate(result_dict,
                                [messages |-> Append(s.messages, response)])
                       ELSE result_dict]

fallback_generate(s, lvl, fresh) ==
    LET simplified == get_simplified_response(lvl, s.user_input)
        fallback_response ==
            IF simplified.text = Null THEN "having trouble" ELSE simplified.text
        fallback_msg == AIMessage(fresh, fallback_response, 0)
    IN IF simplified.raised
       THEN [raised |-> TRUE, patch |-> <<>>]
       ELSE [raised |-> FALSE,
             patch |-> DictUpdate(
                 [agent_response |-> MsgResponse(fallback_msg)],
                 handle_state_error(s, "Using fallback response generation"))]

\* [raised, patch]: raised when the fallback itself raises.
generate_response(s, lvl, outcome, fresh) ==
    LET primary == robust_generate(s, outcome, fresh)
    IN IF primary.raised THEN fallback_generate(s, lvl, fresh) ELSE primary

\* _should_use_tools without the test of the degradation level.
route_after_generate_any_level(s, lvl) ==
    IF s.agent_response.kind = "msg" /\ s.agent_response.tool_calls > 0
    THEN "tools"
    ELSE "continue"

\* BobAgent._should_use_tools, the conditional edge after generate_response.
route_after_generate(s, lvl) ==
    IF ~should_use_tools(lvl) THEN "continue"
    ELSE IF s.agent_response.kind = "msg" /\ s.agent_response.tool_calls > 0
    THEN "tools"
    ELSE "continue"

\* The tools edge wired to update_state.
route_after_tools_to_update == "update_state"

\* The edge leaving the tools node.
route_after_tools == "generate_response"

\* Index of the last assistant message of msgs, 0 when there is none.
LastAI(msgs) ==
    IF \E k \in 1..Len(msgs) : msgs[k].type = "ai"
    THEN CHOOSE k \in 1..Len(msgs) :
             /\ msgs[k].type = "ai"
             /\ \A j \in (k + 1)..Len(msgs) : msgs[j].type # "ai"
    ELSE 0

\* ToolNode: one tool-result message per tool call (at most one here) of
\* the assistant message it serves.  That is the last message; when the
\* last message is no assistant message the library either raises
\* ValueError or serves the latest assistant message, by its version
\* (`latest`).  [raised, patch]
tool_node(s, fresh, latest) ==
    LET n == Len(s.messages)
        k == IF n > 0 /\ s.messages[n].type = "ai" THEN n
             ELSE IF latest THEN LastAI(s.messages) ELSE 0
    IN IF k = 0
       THEN [raised |-> TRUE, patch |-> <<>>]
       ELSE [raised |-> FALSE,
             patch |-> [messages |->
                 IF s.messages[k].tool_calls > 0
                 THEN <<ToolMessage(fresh, "tool result")>>
                 ELSE <<>>]]

\* A string appended to messages is coerced to a human message by the reducer.
ResponseAsMessage(r, fresh) ==
    IF r.kind = "msg" THEN AIMessage(r.id, r.content, r.tool_calls)
    ELSE HumanMessage(fresh, r.content)

\* update_state that does not append the response to the conversation.
update_state_no_append(s, fresh) ==
    IF ~validate_state(s)
    THEN handle_state_error(s, "Invalid state detected in update_state")
    ELSE IF HasResponse(s)
    THEN LET updated_state ==
                 [user_input |-> Null,
                  agent_response |-> StrResponse(s.agent_response.content)]
         IN reset_error_state(update_metadata(DictUpdate(s, updated_state)))
    ELSE reset_error_state(s)

\* BobAgent._update_state
update_state(s, fresh) ==
    IF ~validate_state(s)
    THEN handle_state_error(s, "Invalid state detected in update_state")
    ELSE IF HasResponse(s)
    THEN LET updated_state ==
                 [messages |-> Append(s.messages,
                                      ResponseAsMessage(s.agent_response, fresh)),
                  user_input |-> Null,
                  agent_response |-> StrResponse(s.agent_response.content)]
         IN reset_error_state(update_metadata(DictUpdate(s, updated_state)))
    ELSE reset_error_state(s)

\* should_continue with the single-turn test of the package variant
\* (a response exists) in place of "no pending input".
should_continue_on_response(s, max_iterations) ==
    IF s.should_end \/ s.iteration_count >= max_iterations
    THEN END_CONVERSATION
    ELSE IF ~s.continue_conversation /\ s.iteration_count > 0 /\ HasResponse(s)
    THEN END_CONVERSATION
    ELSE CONTINUE

\* BobAgent._should_continue, the conditional edge after update_state.
should_continue(s, max_iterations) ==
    IF s.should_end \/ s.iteration_count >= max_iterations
    THEN END_CONVERSATION
    ELSE IF ~s.continue_conversation /\ s.iteration_count >= 1 /\ ~HasInput(s)
    THEN END_CONVERSATION
    ELSE CONTINUE

\* ------------------------------------------------------- retry layer
\* An error, by what classify_error looks at: the terms its lower-cased
\* text contains and the terms its lower-cased type name contains.
NoError == [name |-> "none", str_terms |-> {}, type_terms |-> {}]
\* "Recursion limit of 50 reached without hitting a stop condition. ..."
GraphRecursionError ==
    [name |-> "GraphRecursionError", str_terms |-> {"limit"}, type_terms |-> {}]
\* "Last message is not an AIMessage"
ValueErrorTool ==
    [name |-> "ValueError", str_terms |-> {}, type_terms |-> {"value"}]
\* "'NoneType' object is not subscriptable"
TypeErrorNone ==
    [name |-> "TypeError", str_terms |-> {}, type_terms |-> {"type"}]

\* str.lower(), for the letters of the texts used here.
LowerChar(c) ==
    CASE c = "A" -> "a" [] c = "B" -> "b" [] c = "C" -> "c" [] c = "D" -> "d"
      [] c = "E" -> "e" [] c = "F" -> "f" [] c = "G" -> "g" [] c = "H" -> "h"
      [] c = "I" -> "i" [] c = "J" -> "j" [] c = "K" -> "k" [] c = "L" -> "l"
      [] c = "M" -> "m" [] c = "N" -> "n" [] c = "O" -> "o" [] c = "P" -> "p"
      [] c = "Q" -> "q" [] c = "R" -> "r" [] c = "S" -> "s" [] c = "T" -> "t"
      [] c = "U" -> "u" [] c = "V" -> "v" [] c = "W" -> "w" [] c = "X" -> "x"
      [] c = "Y" -> "y" [] c = "Z" -> "z" [] OTHER -> c

RECURSIVE Lower(_)
Lower(text) ==
    IF Len(text) = 0 THEN ""
    ELSE LowerChar(SubSeq(text, 1, 1)) \o Lower(SubSeq(text, 2, Len(text)))

\* term in text
Contains(text, term) ==
    \E i \in 1..(Len(text) - Len(term) + 1) :
        SubSeq(text, i, i + Len(term) - 1) = term

\* The terms classify_error looks for in str(error).lower() ...
StrPatterns ==
    {"api", "anthropic", "rate", "limit", "429",
     "connection", "network", "timeout", "unreachable"}
\* ... and in type(error).__name__.lower().
TypePatterns == {"timeouterror", "value", "type", "attribute", "key"}

\* The exception type_name(text), by what classify_error finds in it.
ErrorOf(type_name, text) ==
    [name |-> type_name,
     str_terms |-> {p \in StrPatterns : Contains(Lower(text), p)},
     type_terms |-> {p \in TypePatterns : Contains(Lower(type_name), p)}]

classify_error(error) ==
    IF error.str_terms \cap {"api", "anthropic"} # {} THEN "api_error"
    ELSE IF error.str_terms \cap {"rate", "limit", "429"} # {} THEN "rate_limit"
    ELSE IF error.str_terms \cap {"connection", "network", "timeout", "unreachable"} # {}
    THEN "network_error"
    ELSE IF "timeout" \in error.str_terms \/ "timeouterror" \in error.type_terms
    THEN "timeout_error"
    ELSE IF error.type_terms \cap {"value", "type", "attribute", "key"} # {}
    THEN "validation_error"
    ELSE "unknown_error"

\* A retry set holding every error kind.
retry_on_all_errors ==
    {"api_error", "rate_limit", "validation_error", "network_error",
     "timeout_error", "unknown_error"}

\* RetryConfig.__post_init__: the default retry set.
retry_on_errors == {"api_error", "rate_limit", "network_error", "timeout_error"}

\* should_retry without the cap on the attempt index.
should_retry_no_cap(error, attempt_index, max_retries) ==
    classify_error(error) \in retry_on_errors

should_retry(error, attempt_index, max_retries) ==
    IF attempt_index >= max_retries THEN FALSE
    ELSE classify_error(error) \in retry_on_errors

\* The exceptions of the error-handling test script, and three more.
ErrorTexts ==
    {[type_name |-> "Exception", text |-> "API rate limit exceeded"],
     [type_name |-> "Exception", text |-> "Connection timeout"],
     [type_name |-> "ValueError", text |-> "Invalid value provided"],
     [type_name |-> "Exception", text |-> "Anthropic API error"],
     [type_name |-> "Exception", text |-> "Random unknown error"],
     [type_name |-> "Exception", text |-> "Temporary failure"],
     [type_name |-> "Exception", text |-> "Always fails"],
     [type_name |-> "Exception", text |-> "Too many requests (429)"],
     [type_name |-> "TimeoutError", text |-> "timed out"]}

\* The exception each of them constructs.
ErrorTable == [e \in ErrorTexts |-> ErrorOf(e.type_name, e.text)]
Raise(e) == ErrorTable[e]

\* RetryConfig; delays are counted in hundredths of a second.
DefaultRetryConfig ==
    [max_retries |-> 3, base_delay |-> 100, max_delay |-> 6000, jitter |-> TRUE]
RetryConfigs ==
    [max_retries : 0..MaxHandlerRetries, base_delay : {10, 100},
     max_delay : {200, 6000}, jitter : BOOLEAN]

RECURSIVE Pow(_, _)
Pow(b, n) == IF n = 0 THEN 1 ELSE b * Pow(b, n - 1)

\* ErrorHandler.calculate_delay; random.uniform(0, delay * 0.1) gives the
\* k-th of the JitterParts + 1 evenly spaced values of its range.
calculate_delay(config, attempt_index, k) ==
    LET raw == config.base_delay * Pow(exponential_base, attempt_index)
        delay == IF raw < config.max_delay THEN raw ELSE config.max_delay
    IN IF config.jitter
       THEN delay + ((delay \div 10) * k) \div JitterParts
       ELSE delay

\* ErrorHandler.log_error: the entry appended to error_history.
log_error_one_based(error_history, error, attempt_index) ==
    Append(error_history,
           [error_type |-> classify_error(error), attempt |-> attempt_index + 1])

log_error(error_history, error, attempt_index) ==
    Append(error_history,
           [error_type |-> classify_error(error), attempt |-> attempt_index])

\* A primary operation: it raises `error` on its first `fails` calls and
\* returns "Success!" on every later one.
Primaries == [fails : 0..MaxFailures, error : ErrorTexts]
\* A fallback: none supplied, one that returns, one that raises.
Fallbacks == {"none", "ok", "raises"}
FallbackError ==
    [name |-> "RuntimeError", str_terms |-> {}, type_terms |-> {}]

\* The end of retry_with_fallback that raises the primary's error even
\* when a fallback raised.
after_retries_primary_error(fallback, last_error) ==
    IF fallback = "ok"
    THEN [kind |-> "returned", value |-> "Fallback result",
          error |-> NoError, fallback_calls |-> 1]
    ELSE [kind |-> "raised", value |-> Null, error |-> last_error,
          fallback_calls |-> IF fallback = "none" THEN 0 ELSE 1]

\* retry_with_fallback after its loop was left without a result.
after_retries(fallback, last_error) ==
    IF fallback # "none"
    THEN IF fallback = "ok"
         THEN [kind |-> "returned", value |-> "Fallback result",
               error |-> NoError, fallback_calls |-> 1]
         ELSE [kind |-> "raised", value |-> Null, error |-> FallbackError,
               fallback_calls |-> 1]
    ELSE [kind |-> "raised", value |-> Null, error |-> last_error,
          fallback_calls |-> 0]

\* An ErrorHandler and the retry_with_fallback call it is running.
NewHandler(config, primary, fallback) ==
    [config |-> config, primary |-> primary, fallback |-> fallback,
     pc |-> "loop", attempt |-> 0, primary_calls |-> 0, fallback_calls |-> 0,
     sleeps |-> 0, delay |-> 0, error_history |-> <<>>,
     last_error |-> NoError, value |-> Null, error |-> NoError]

NoHandler ==
    [NewHandler(DefaultRetryConfig,
                [fails |-> 0,
                 error |-> [type_name |-> "Exception", text |-> "Always fails"]],
                "none") EXCEPT !.pc = "idle"]

\* One pass of the loop `for attempt in range(max_retries + 1)`.
retry_attempt(h, k) ==
    IF h.primary_calls >= h.primary.fails
    THEN [h EXCEPT !.pc = "returned", !.value = "Success!",
                   !.primary_calls = @ + 1]
    ELSE LET error == Raise(h.primary.error)
             g == [h EXCEPT !.primary_calls = @ + 1,
                            !.last_error = error,
                            !.error_history = log_error(@, error, h.attempt)]
         IN IF ~should_retry(error, h.attempt, h.config.max_retries)
            THEN [g EXCEPT !.pc = "exhausted"]
            ELSE LET s == IF h.attempt < h.config.max_retries
                          THEN [g EXCEPT !.sleeps = @ + 1,
                                         !.delay = calculate_delay(h.config, h.attempt, k)]
                          ELSE g
                 IN [s EXCEPT !.attempt = @ + 1,
                              !.pc = IF h.attempt + 1 <= h.config.max_retries
                                     THEN "loop" ELSE "exhausted"]

\* The fallback, or the raise, that follows the loop.
retry_finish(h) ==
    LET r == after_retries(h.fallback, h.last_error)
    IN [h EXCEPT !.pc = r.kind, !.value = r.value, !.error = r.error,
                 !.fallback_calls = r.fallback_calls]

\* What the last stand-alone call of the error-handling layer was and gave.
NoProbe == [op |-> "none"]

\* ------------------------------------------------------- facade
\* A facade that starts every call from a new initial state.
LoadState_reset(s, message, multi_turn) ==
    [create_initial_state(message) EXCEPT !.continue_conversation = multi_turn]

\* The state chat / stream_chat hand to the workflow.
LoadState(s, message, multi_turn) ==
    IF s.exists
    THEN [s EXCEPT !.user_input = message, !.should_end = FALSE,
                   !.continue_conversation = multi_turn]
    ELSE [create_initial_state(message) EXCEPT !.continue_conversation = multi_turn]

\* Any assistant message, with text or without.
IsAnyAI(m) == m.type = "ai"

\* str.strip() for the blank this model writes, the space.
RECURSIVE Strip(_)
Strip(c) ==
    IF c = "" THEN ""
    ELSE IF SubSeq(c, 1, 1) = " " THEN Strip(SubSeq(c, 2, Len(c)))
    ELSE IF SubSeq(c, Len(c), Len(c)) = " " THEN Strip(SubSeq(c, 1, Len(c) - 1))
    ELSE c

\* msg.content and isinstance(msg.content, str) and msg.content.strip()
IsTextAI(m) == m.type = "ai" /\ m.content # "" /\ Strip(m.content) # ""

\* str(agent_response) of a message object without content.
StrOfMessage == "content='' tool_calls=[...]"

\* The text chat returns when the invocation succeeded.
ExtractResponse(s) ==
    IF \E k \in 1..Len(s.messages) : IsTextAI(s.messages[k])
    THEN LET k == CHOOSE j \in 1..Len(s.messages) :
                     /\ IsTextAI(s.messages[j])
                     /\ \A i \in (j + 1)..Len(s.messages) : ~IsTextAI(s.messages[i])
         IN [kind |-> "ok", text |-> s.messages[k].content, id |-> s.messages[k].id]
    ELSE IF HasResponse(s)
    THEN [kind |-> "ok",
          text |-> IF s.agent_response.content # ""
                   THEN s.agent_response.content
                   ELSE StrOfMessage,
          id |-> 0]
    ELSE [kind |-> "ok", text |-> "No response generated.", id |-> 0]

\* _fallback_chat at the degradation level already increased.
FallbackChatResult(lvl, message) ==
    LET simplified == get_simplified_response(lvl, message)
    IN IF simplified.raised THEN [kind |-> "raised", text |-> Null, id |-> 0]
       ELSE [kind |-> "fallback",
             text |-> IF simplified.text = Null
                      THEN "technical difficulties, try later"
                      ELSE simplified.text,
             id |-> 0]

NoResult == [kind |-> "none", text |-> Null, id |-> 0]

\* Message ids are unique within a thread (uuids and run ids in the
\* program).  The model hands them out in increasing order, so the last
\* message holds the largest id of the list: a new message takes the least
\* id above it and above the id of the pending response.
FreshId(s) ==
    LET n == Len(s.messages)
        m == IF n = 0 THEN 0 ELSE s.messages[n].id
    IN 1 + (IF s.agent_response.id > m THEN s.agent_response.id ELSE m)

\* ------------------------------------------------------- state machine
VARIABLES
    st,                 \* the thread's persisted channel values
    level,              \* degradation_manager.degradation_level
    cfg_max_iterations, \* config.max_iterations
    cfg_max_retries,    \* retry_config.max_retries
    pc,                 \* "idle", the next node, "end" or "error"
    mode,               \* "chat" or "stream": the facade call in progress
    input,              \* its message argument
    attempt,            \* attempt index of chat's retry wrapper
    err,                \* the error the invocation raised
    steps,              \* node visits of the current invocation
    path,               \* the first MaxPathLen nodes it visited, in order
    last,               \* the node visited last in it
    script,             \* the model's behaviour during it
    calls,              \* model calls made in it, counted up to MaxToolRounds
    produced,           \* what its last generate_response produced
    decision,           \* the last continuation decision
    result,             \* what the last facade call gave its caller
    turns,              \* facade calls issued
    lenBefore,          \* len(messages) when the facade call started
    levelBefore,        \* degradation level when the facade call started
    eh,                 \* an ErrorHandler and its retry_with_fallback call
    probe,              \* the last stand-alone error-handling call
    thread,             \* the thread id the calls are made on
    par                 \* the calls running in parallel, each with its
                        \* position and the values it holds locally

vars == <<st, level, cfg_max_iterations, cfg_max_retries, pc, mode, input,
          attempt, err, steps, path, last, script, calls, produced, decision,
          result, turns, lenBefore, levelBefore, eh, probe, thread, par>>

cfgVars == <<cfg_max_iterations, cfg_max_retries>>
callVars == <<mode, input, turns, lenBefore, levelBefore>>
ehVars == <<eh, probe>>

\* Calls are made on thread "A" until the caller moves to thread "B";
\* calls_before counts the facade calls issued before the move.
FirstThread == [id |-> "A", calls_before |-> 0]

\* The callers that may run at the same time, and none of them running.
Callers == {1, 2}
NoParallel == [c \in Callers |-> [pc |-> "idle"]]

Init ==
    /\ st = NoState
    /\ level = 0
    /\ cfg_max_iterations \in 1..MaxMaxIterations
    /\ cfg_max_retries = MaxRetries
    /\ pc = "idle"
    /\ mode = "none"
    /\ input = Null
    /\ attempt = 0
    /\ err = NoError
    /\ steps = 0
    /\ path = <<>>
    /\ last = "none"
    /\ script = Recovered
    /\ calls = 0
    /\ produced = "none"
    /\ decision = "none"
    /\ result = NoResult
    /\ turns = 0
    /\ lenBefore = 0
    /\ levelBefore = 0
    /\ eh = NoHandler
    /\ probe = NoProbe
    /\ thread = FirstThread
    /\ par = NoParallel

\* app.invoke / app.stream: the input is written to the channels and the
\* run starts at the entry point.
Invoke(message, multi_turn) ==
    /\ st' = ApplyPatch(st, LoadState(st, message, multi_turn))
    /\ pc' = "process_input"
    /\ steps' = 0
    /\ path' = <<>>
    /\ last' = "none"
    /\ calls' = 0
    /\ produced' = "none"
    /\ err' = NoError
    /\ decision' = "none"

StartCall(m, message) ==
    /\ pc = "idle"
    /\ turns < MaxTurns
    /\ Len(st.messages) <= MaxStartMessages
    /\ mode' = m
    /\ input' = message
    /\ turns' = turns + 1
    /\ lenBefore' = Len(st.messages)
    /\ levelBefore' = level
    /\ attempt' = 0
    /\ result' = NoResult
    /\ UNCHANGED <<level, cfgVars, ehVars, thread, par>>

ChatStart ==
    \E message \in UserMessages, sc \in Scripts :
        StartCall("chat", message) /\ Invoke(message, FALSE) /\ script' = sc

StreamStart ==
    \E message \in UserMessages, sc \in Scripts :
        StartCall("stream", message) /\ Invoke(message, TRUE) /\ script' = sc

\* A node runs only while the invocation is below its recursion limit.
Visit(node) ==
    /\ pc = node
    /\ steps < RecursionLimit
    /\ steps' = steps + 1
    /\ path' = IF Len(path) < MaxPathLen THEN Append(path, node) ELSE path
    /\ last' = node
    /\ script' = script
    /\ UNCHANGED <<level, cfgVars, ehVars, thread, par, callVars, attempt, result>>

ProcessInput ==
    /\ Visit("process_input")
    /\ LET new == ApplyPatch(st, process_input(st, FreshId(st)))
       IN /\ st' = new
          /\ pc' = route_after_process_input(new)
    /\ UNCHANGED <<err, calls, produced, decision>>

AdvancedProcessing ==
    /\ Visit("advanced_processing")
    /\ st' = ApplyPatch(st, advanced_processing(st))
    /\ pc' = "generate_response"
    /\ UNCHANGED <<err, calls, produced, decision>>

\* The outcome of the model call the script is at.
Outcome == IF calls < script.tools THEN "tool" ELSE script.then

GenerateResponse ==
    /\ Visit("generate_response")
    /\ LET r == generate_response(st, level, Outcome, FreshId(st))
           new == ApplyPatch(st, r.patch)
       IN IF r.raised
          THEN /\ st' = st
               /\ pc' = "error"
               /\ err' = TypeErrorNone
               /\ produced' = "raised"
          ELSE /\ st' = new
               /\ pc' = IF route_after_generate(new, level) = "tools"
                        THEN "tools" ELSE "update_state"
               /\ err' = err
               /\ produced' = IF robust_generate(st, Outcome, FreshId(st)).raised
                              THEN "fallback" ELSE Outcome
    /\ calls' = IF calls < MaxToolRounds THEN calls + 1 ELSE calls
    /\ UNCHANGED decision

Tools ==
    /\ Visit("tools")
    /\ \E latest \in BOOLEAN :
        LET r == tool_node(st, FreshId(st), latest)
        IN IF r.raised
           THEN /\ st' = st
                /\ pc' = "error"
                /\ err' = ValueErrorTool
           ELSE /\ st' = ApplyPatch(st, r.patch)
                /\ pc' = route_after_tools
                /\ err' = err
    /\ UNCHANGED <<calls, produced, decision>>

UpdateState ==
    /\ Visit("update_state")
    /\ LET new == ApplyPatch(st, update_state(st, FreshId(st)))
       IN /\ st' = new
          /\ decision' = should_continue(new, cfg_max_iterations)
          /\ pc' = IF should_continue(new, cfg_max_iterations) = CONTINUE
                   THEN "process_input" ELSE "end"
    /\ UNCHANGED <<err, calls, produced>>

\* The next node is due but the recursion limit is used up.
StepLimit ==
    /\ pc \in Nodes
    /\ steps >= RecursionLimit
    /\ pc' = "error"
    /\ err' = GraphRecursionError
    /\ UNCHANGED <<st, level, cfgVars, ehVars, thread, par, callVars, attempt, steps, path,
                   last, script, calls, produced, decision, result>>

\* chat: the invocation returned.
ChatReturn ==
    /\ pc = "end" /\ mode = "chat"
    /\ result' = ExtractResponse(st)
    /\ pc' = "idle"
    /\ UNCHANGED <<st, level, cfgVars, ehVars, thread, par, callVars, attempt, err, steps, path,
                   last, script, calls, produced, decision>>

\* chat: the invocation raised and the retry wrapper runs _robust_chat again.
ChatRetry ==
    /\ pc = "error" /\ mode = "chat"
    /\ should_retry(err, attempt, cfg_max_retries)
    /\ attempt' = attempt + 1
    /\ Invoke(input, FALSE)
    /\ script' \in {script, Recovered}
    /\ UNCHANGED <<level, cfgVars, ehVars, thread, par, callVars, result>>

\* chat: the retry wrapper gave up and _fallback_chat answers.
ChatFallback ==
    /\ pc = "error" /\ mode = "chat"
    /\ ~should_retry(err, attempt, cfg_max_retries)
    /\ level' = increase_degradation(level)
    /\ result' = FallbackChatResult(increase_degradation(level), input)
    /\ pc' = "idle"
    /\ UNCHANGED <<st, cfgVars, ehVars, thread, par, callVars, attempt, err, steps, path,
                   last, script, calls, produced, decision>>

\* stream_chat: the generator is exhausted.
StreamDone ==
    /\ pc = "end" /\ mode = "stream"
    /\ result' = [kind |-> "ok", text |-> Null, id |-> 0]
    /\ pc' = "idle"
    /\ UNCHANGED <<st, level, cfgVars, ehVars, thread, par, callVars, attempt, err, steps, path,
                   last, script, calls, produced, decision>>

\* stream_chat: the error of the invocation reaches the consumer.
StreamRaise ==
    /\ pc = "error" /\ mode = "stream"
    /\ result' = [kind |-> "raised", text |-> Null, id |-> 0]
    /\ pc' = "idle"
    /\ UNCHANGED <<st, level, cfgVars, ehVars, thread, par, callVars, attempt, err, steps, path,
                   last, script, calls, produced, decision>>

Next ==
    \/ ChatStart
    \/ StreamStart
    \/ ProcessInput
    \/ GenerateResponse
    \/ Tools
    \/ UpdateState
    \/ StepLimit
    \/ ChatReturn
    \/ ChatRetry
    \/ ChatFallback
    \/ StreamDone
    \/ StreamRaise

Spec == Init /\ [][Next]_vars

\* ------------------------------------------------- a second thread
\* The caller passes a thread id not used before: the checkpointer holds
\* nothing for it, so the next call finds no state. The agent object, and
\* with it degradation_manager, is the same.
SwitchThread ==
    /\ pc = "idle"
    /\ thread.id = "A"
    /\ thread' = [id |-> "B", calls_before |-> turns]
    /\ st' = NoState
    /\ UNCHANGED <<level, cfg_max_iterations, cfg_max_retries, eh, probe, pc,
                   callVars, attempt, err, steps, path, last, script, calls,
                   produced, decision, result, par>>

ThreadNext == Next \/ SwitchThread

SpecThreads == Init /\ [][ThreadNext]_vars

\* ------------------------------------------- one node on any state
\* Every node but tools, run once on a state drawn from a bounded set of
\* states (valid or not), at every degradation level.
NodeMessages ==
    {<<>>, <<HumanMessage(1, "hi"), AIMessage(2, "", 1)>>}

NodeResponses ==
    {NoResponse, MsgResponse(AIMessage(3, "reply", 0)),
     MsgResponse(AIMessage(2, "", 1)), StrResponse("reply")}

NodeStates ==
    {[exists |-> TRUE, messages |-> ms, user_input |-> ui,
      agent_response |-> ar, iteration_count |-> ic, should_end |-> se,
      continue_conversation |-> cc, context |-> EmptyContext,
      metadata_ok |-> mo, total_messages |-> Len(ms),
      last_error |-> Null, retry_count |-> 0] :
        ms \in NodeMessages, ui \in {Null} \cup UserMessages,
        ar \in NodeResponses, ic \in (-1)..MaxIterationCount,
        se \in BOOLEAN, cc \in BOOLEAN, mo \in BOOLEAN}

NodeInit ==
    /\ st \in NodeStates
    /\ level \in 0..max_degradation_level
    /\ cfg_max_iterations \in 1..MaxMaxIterations
    /\ cfg_max_retries = MaxRetries
    /\ pc \in Nodes \ {"tools"}
    /\ mode = "none"
    /\ input = Null
    /\ attempt = 0
    /\ err = NoError
    /\ steps = 0
    /\ path = <<>>
    /\ last = "none"
    /\ script \in {sc \in Scripts : sc.tools = 0}
    /\ calls = 0
    /\ produced = "none"
    /\ decision = "none"
    /\ result = NoResult
    /\ turns = 0
    /\ lenBefore = Len(st.messages)
    /\ levelBefore = level
    /\ eh = NoHandler
    /\ probe = NoProbe
    /\ thread = FirstThread
    /\ par = NoParallel

NodeProcessInput == steps = 0 /\ ProcessInput
NodeAdvancedProcessing == steps = 0 /\ AdvancedProcessing
NodeGenerateResponse == steps = 0 /\ GenerateResponse
NodeUpdateState == steps = 0 /\ UpdateState

NodeNext ==
    \/ NodeProcessInput
    \/ NodeAdvancedProcessing
    \/ NodeGenerateResponse
    \/ NodeUpdateState

SpecNodes == NodeInit /\ [][NodeNext]_vars

\* ------------------------------------ the error-handling layer alone
\* ErrorHandler and GracefulDegradation used directly, as the test script
\* of the error-handling layer does: one call at a time, on one
\* GracefulDegradation object and on a new ErrorHandler per
\* retry_with_fallback call.
DegradationInputs ==
    {"", "Test user input",
     "0123456789012345678901234567890123456789012345678901234567890"}

workflowVars ==
    <<st, cfg_max_iterations, cfg_max_retries, pc, mode, input, attempt, err,
      steps, path, last, script, calls, produced, decision, result, turns,
      lenBefore, levelBefore, thread, par>>

\* No call is in progress and the result of the last one was taken.
HandlerIdle == eh.pc = "idle" /\ probe.op = "none"

RetryStart ==
    /\ HandlerIdle
    /\ \E config \in RetryConfigs, primary \in Primaries, fallback \in Fallbacks :
           eh' = NewHandler(config, primary, fallback)
    /\ probe' = NoProbe
    /\ UNCHANGED <<level, workflowVars>>

RetryAttempt ==
    /\ eh.pc = "loop"
    /\ \E k \in 0..JitterParts : eh' = retry_attempt(eh, k)
    /\ UNCHANGED <<level, probe, workflowVars>>

RetryFinish ==
    /\ eh.pc = "exhausted"
    /\ eh' = retry_finish(eh)
    /\ UNCHANGED <<level, probe, workflowVars>>

ClassifyError ==
    /\ HandlerIdle
    /\ \E e \in ErrorTexts :
           probe' = [op |-> "classify_error", arg |-> e,
                     out |-> classify_error(Raise(e))]
    /\ eh' = NoHandler
    /\ UNCHANGED <<level, workflowVars>>

CalculateDelay ==
    /\ HandlerIdle
    /\ \E config \in RetryConfigs, a \in 0..MaxAttemptIndex, k \in 0..JitterParts :
           probe' = [op |-> "calculate_delay",
                     arg |-> [config |-> config, attempt |-> a],
                     out |-> calculate_delay(config, a, k)]
    /\ eh' = NoHandler
    /\ UNCHANGED <<level, workflowVars>>

IncreaseDegradation ==
    /\ HandlerIdle
    /\ level' = increase_degradation(level)
    /\ probe' = [op |-> "increase_degradation", arg |-> level,
                 out |-> increase_degradation(level)]
    /\ eh' = NoHandler
    /\ UNCHANGED workflowVars

DecreaseDegradation ==
    /\ HandlerIdle
    /\ level' = decrease_degradation(level)
    /\ probe' = [op |-> "decrease_degradation", arg |-> level,
                 out |-> decrease_degradation(level)]
    /\ eh' = NoHandler
    /\ UNCHANGED workflowVars

\* should_use_tools, should_use_advanced_features and
\* get_simplified_response asked at the current level.
QueryDegradation ==
    /\ HandlerIdle
    /\ \E u \in DegradationInputs :
           probe' = [op |-> "query",
                     arg |-> [level |-> level, user_input |-> u],
                     out |-> [tools |-> should_use_tools(level),
                              advanced |-> should_use_advanced_features(level),
                              simplified |-> get_simplified_response(level, u)]]
    /\ eh' = NoHandler
    /\ UNCHANGED <<level, workflowVars>>

\* The caller takes the result of the finished call; the ErrorHandler of a
\* finished retry_with_fallback call is dropped.
TakeResult ==
    /\ eh.pc \in {"returned", "raised"} \/ probe.op # "none"
    /\ eh' = NoHandler
    /\ probe' = NoProbe
    /\ UNCHANGED <<level, workflowVars>>

HandlerNext ==
    \/ RetryStart
    \/ RetryAttempt
    \/ RetryFinish
    \/ ClassifyError
    \/ CalculateDelay
    \/ IncreaseDegradation
    \/ DecreaseDegradation
    \/ QueryDegradation
    \/ TakeResult

SpecHandlers == Init /\ [][HandlerNext]_vars

\* --------------------------------------- the history of one thread
\* A thread that holds n messages: its turns alternate a user message and
\* an assistant reply; an odd n is a thread whose last turn failed after
\* process_input.
Conversation(n) ==
    [i \in 1..n |-> IF i % 2 = 1 THEN HumanMessage(i, "hi")
                    ELSE AIMessage(i, "reply", 0)]

HistoryThread(n) ==
    IF n = 0 THEN NoState
    ELSE [create_initial_state(Null) EXCEPT
             !.messages = Conversation(n),
             !.agent_response = IF n >= 2 THEN StrResponse("reply") ELSE NoResponse,
             !.iteration_count = (n + 1) \div 2,
             !.total_messages = n]

\* The thread is idle, or chat has just handed a message to the workflow.
HistoryInit ==
    /\ \E n \in 0..MaxHistoryLen :
        \/ /\ st = HistoryThread(n)
           /\ pc = "idle" /\ mode = "none" /\ input = Null /\ turns = 0
        \/ \E message \in UserMessages :
           /\ st = ApplyPatch(HistoryThread(n),
                              LoadState(HistoryThread(n), message, FALSE))
           /\ pc = "process_input" /\ mode = "chat" /\ input = message
           /\ turns = 1
    /\ level = 0
    /\ cfg_max_iterations \in 1..MaxMaxIterations
    /\ cfg_max_retries = MaxRetries
    /\ attempt = 0
    /\ err = NoError
    /\ steps = 0
    /\ path = <<>>
    /\ last = "none"
    /\ script = Recovered
    /\ calls = 0
    /\ produced = "none"
    /\ decision = "none"
    /\ result = NoResult
    /\ lenBefore = Len(st.messages)
    /\ levelBefore = 0
    /\ eh = NoHandler
    /\ probe = NoProbe
    /\ thread = FirstThread
    /\ par = NoParallel

historyVars ==
    <<st, level, cfg_max_iterations, cfg_max_retries, pc, mode, input, attempt,
      err, steps, path, last, script, calls, produced, decision, result,
      turns, lenBefore, levelBefore, eh, thread, par>>

\* truncate_conversation_history called on the thread's state.
TruncateHistory ==
    /\ pc = "idle"
    /\ \E max_messages \in 1..MaxTruncate :
           probe' = [op |-> "truncate_conversation_history",
                     arg |-> [messages |-> st.messages,
                              max_messages |-> max_messages],
                     out |-> truncate_conversation_history(st, max_messages)]
    /\ UNCHANGED historyVars

\* BobAgent.clear_conversation: nothing is removed, True is returned.
ClearConversation ==
    /\ pc = "idle"
    /\ probe' = [op |-> "clear_conversation", out |-> TRUE]
    /\ UNCHANGED historyVars

\* BobAgent.get_conversation_history; `after_clear` tells that the call
\* before it was a clear_conversation that reported success.
GetConversationHistory ==
    /\ pc = "idle"
    /\ probe' = [op |-> "get_conversation_history",
                 after_clear |-> probe.op = "clear_conversation" /\ probe.out,
                 out |-> IF st.exists THEN st.messages ELSE <<>>]
    /\ UNCHANGED historyVars

HistoryNext ==
    \/ NodeProcessInput
    \/ TruncateHistory
    \/ ClearConversation
    \/ GetConversationHistory

SpecHistory == HistoryInit /\ [][HistoryNext]_vars

\* ------------------------------------ the value chat returns
\* The messages an invocation can hand back: the user's message followed
\* by up to MaxExtractLen messages, each an assistant text, an assistant
\* message of blanks, an assistant message that only requests a tool, an
\* assistant message with nothing in it, or a tool result.
ExtractKinds == {"text", "blank", "tool_call", "empty", "tool_result"}

ExtractMessage(kind, i) ==
    CASE kind = "text" -> AIMessage(i, "reply", 0)
      [] kind = "blank" -> AIMessage(i, " ", 0)
      [] kind = "tool_call" -> AIMessage(i, "", 1)
      [] kind = "empty" -> AIMessage(i, "", 0)
      [] kind = "tool_result" -> ToolMessage(i, "result")

ExtractConversations ==
    UNION {{<<HumanMessage(1, "hi")>>
               \o [i \in 1..n |-> ExtractMessage(kinds[i], i + 1)] :
            kinds \in [1..n -> ExtractKinds]} : n \in 0..MaxExtractLen}

\* agent_response as update_state leaves it: absent or a string.
ExtractResponses ==
    {NoResponse, StrResponse(""), StrResponse(" "), StrResponse("reply")}

\* The invocation of chat("hi") has just returned its final state.
ExtractInit ==
    /\ \E msgs \in ExtractConversations, response \in ExtractResponses :
           st = [create_initial_state(Null) EXCEPT
                    !.messages = msgs,
                    !.agent_response = response,
                    !.iteration_count = 1,
                    !.total_messages = Len(msgs)]
    /\ pc = "end" /\ mode = "chat" /\ input = "hi" /\ turns = 1
    /\ level = 0
    /\ cfg_max_iterations \in 1..MaxMaxIterations
    /\ cfg_max_retries = MaxRetries
    /\ attempt = 0
    /\ err = NoError
    /\ steps = 0
    /\ path = <<>>
    /\ last = "update_state"
    /\ script = Recovered
    /\ calls = 0
    /\ produced = "none"
    /\ decision = END_CONVERSATION
    /\ result = NoResult
    /\ lenBefore = 0
    /\ levelBefore = 0
    /\ eh = NoHandler
    /\ probe = NoProbe
    /\ thread = FirstThread
    /\ par = NoParallel

SpecExtract == ExtractInit /\ [][ChatReturn]_vars

\* --------------------------- the degradation manager, called in parallel
\* increase_degradation and decrease_degradation called by two threads on
\* the one GracefulDegradation of an agent.  Nothing locks the manager:
\* the test of the bound, the read of degradation_level and the store of
\* the new value are separate steps, and the other thread may run between
\* any two of them.
IdleCaller == [pc |-> "idle", op |-> "none", reg |-> 0, done |-> 0]

RaceInit ==
    /\ st = NoState
    /\ level \in 0..max_degradation_level
    /\ cfg_max_iterations \in 1..MaxMaxIterations
    /\ cfg_max_retries = MaxRetries
    /\ pc = "idle"
    /\ mode = "none"
    /\ input = Null
    /\ attempt = 0
    /\ err = NoError
    /\ steps = 0
    /\ path = <<>>
    /\ last = "none"
    /\ script = Recovered
    /\ calls = 0
    /\ produced = "none"
    /\ decision = "none"
    /\ result = NoResult
    /\ turns = 0
    /\ lenBefore = 0
    /\ levelBefore = level
    /\ eh = NoHandler
    /\ probe = NoProbe
    /\ thread = FirstThread
    /\ par = [c \in Callers |-> IdleCaller]

raceVars ==
    <<st, cfg_max_iterations, cfg_max_retries, pc, mode, input, attempt, err,
      steps, path, last, script, calls, produced, decision, result, turns,
      lenBefore, levelBefore, eh, probe, thread>>

\* A thread enters increase_degradation or decrease_degradation.
DegradationCall(c) ==
    /\ par[c].pc = "idle"
    /\ par[c].done < MaxParallelOps
    /\ \E op \in {"increase_degradation", "decrease_degradation"} :
           par' = [par EXCEPT ![c].pc = "test", ![c].op = op]
    /\ UNCHANGED <<level, raceVars>>

\* if self.degradation_level < self.max_degradation_level:   (or > 0)
DegradationTest(c) ==
    /\ par[c].pc = "test"
    /\ LET passes == IF par[c].op = "increase_degradation"
                     THEN level < max_degradation_level
                     ELSE level > 0
       IN par' = IF passes
                 THEN [par EXCEPT ![c].pc = "load"]
                 ELSE [par EXCEPT ![c].pc = "idle", ![c].done = @ + 1]
    /\ UNCHANGED <<level, raceVars>>

\* self.degradation_level += 1: the attribute is loaded ...
DegradationLoad(c) ==
    /\ par[c].pc = "load"
    /\ par' = [par EXCEPT ![c].pc = "store", ![c].reg = level]
    /\ UNCHANGED <<level, raceVars>>

\* ... and the sum (or the difference) is stored.
DegradationStore(c) ==
    /\ par[c].pc = "store"
    /\ level' = IF par[c].op = "increase_degradation"
                THEN par[c].reg + 1 ELSE par[c].reg - 1
    /\ par' = [par EXCEPT ![c].pc = "idle", ![c].done = @ + 1]
    /\ UNCHANGED raceVars

RaceNext ==
    \E c \in Callers :
        \/ DegradationCall(c)
        \/ DegradationTest(c)
        \/ DegradationLoad(c)
        \/ DegradationStore(c)

SpecRace == RaceInit /\ [][RaceNext]_vars

\* ------------------------------- chat calls in parallel on one thread
\* Two callers run chat("hi", t) on the same thread id t.  st is the latest
\* checkpoint of t.  A call reads it with get_state, hands the values to
\* invoke, which starts from the latest checkpoint and the values handed
\* in, and then runs the nodes on channel values of its own; after the
\* input and after every node the saver stores those values as the latest
\* checkpoint of t.  The model answers every call with text.
Ids(msgs) == {msgs[k].id : k \in 1..Len(msgs)}

\* The saver keeps the checkpoints it is handed and ignores the rest.
Persist_dropped(checkpoint, channels) == checkpoint

\* InMemorySaver.put: the values written become the latest checkpoint.
Persist(checkpoint, channels) == channels

\* Ids are unique over the callers: caller 1 takes the odd ones.
CallerId(c, issued) == 2 * issued + c

IdleTurn ==
    [pc |-> "idle", current_state |-> NoState, loc |-> NoState, base |-> {},
     turns |-> 0, issued |-> 0, appended |-> {}, overlapped |-> FALSE]

ConcurrentInit ==
    /\ st = NoState
    /\ level = 0
    /\ cfg_max_iterations \in 1..MaxMaxIterations
    /\ cfg_max_retries = MaxRetries
    /\ pc = "idle"
    /\ mode = "none"
    /\ input = Null
    /\ attempt = 0
    /\ err = NoError
    /\ steps = 0
    /\ path = <<>>
    /\ last = "none"
    /\ script = Recovered
    /\ calls = 0
    /\ produced = "none"
    /\ decision = "none"
    /\ result = NoResult
    /\ turns = 0
    /\ lenBefore = 0
    /\ levelBefore = 0
    /\ eh = NoHandler
    /\ probe = NoProbe
    /\ thread = FirstThread
    /\ par = [c \in Callers |-> IdleTurn]

concurrentVars ==
    <<level, cfg_max_iterations, cfg_max_retries, pc, mode, input, attempt,
      err, steps, path, last, script, calls, produced, decision, result,
      turns, lenBefore, levelBefore, eh, probe, thread>>

\* chat: existing_state = self.app.get_state(config) and the state built
\* from it.  The call overlaps when another call is under way.
ParGetState(c) ==
    /\ par[c].pc = "idle"
    /\ par[c].turns < MaxParallelTurns
    /\ par' = [par EXCEPT
                  ![c].pc = "invoke",
                  ![c].current_state = LoadState(st, "hi", FALSE),
                  ![c].overlapped =
                      @ \/ \E d \in Callers \ {c} : par[d].pc # "idle"]
    /\ UNCHANGED <<st, concurrentVars>>

\* chat: self.app.invoke(current_state, ...) reads the latest checkpoint,
\* writes the input to the channels and stores them.
ParInvoke(c) ==
    /\ par[c].pc = "invoke"
    /\ LET channels == ApplyPatch(st, par[c].current_state)
       IN /\ par' = [par EXCEPT ![c].pc = "process_input",
                                ![c].loc = channels,
                                ![c].base = Ids(channels.messages)]
          /\ st' = Persist(st, channels)
    /\ UNCHANGED concurrentVars

ParProcessInput(c) ==
    /\ par[c].pc = "process_input"
    /\ LET new == ApplyPatch(par[c].loc,
                             process_input(par[c].loc,
                                           CallerId(c, par[c].issued)))
       IN /\ par' = [par EXCEPT ![c].pc = route_after_process_input(new),
                                ![c].loc = new,
                                ![c].issued = @ + 1]
          /\ st' = Persist(st, new)
    /\ UNCHANGED concurrentVars

ParGenerateResponse(c) ==
    /\ par[c].pc = "generate_response"
    /\ LET r == generate_response(par[c].loc, level, "text",
                                  CallerId(c, par[c].issued))
           new == ApplyPatch(par[c].loc, r.patch)
       IN /\ ~r.raised
          /\ par' = [par EXCEPT
                        ![c].pc = IF route_after_generate(new, level) = "tools"
                                  THEN "tools" ELSE "update_state",
                        ![c].loc = new,
                        ![c].issued = @ + 1]
          /\ st' = Persist(st, new)
    /\ UNCHANGED concurrentVars

ParUpdateState(c) ==
    /\ par[c].pc = "update_state"
    /\ LET new == ApplyPatch(par[c].loc,
                             update_state(par[c].loc,
                                          CallerId(c, par[c].issued)))
       IN /\ par' = [par EXCEPT
                        ![c].pc = IF should_continue(new, cfg_max_iterations)
                                        = CONTINUE
                                  THEN "process_input" ELSE "end",
                        ![c].loc = new,
                        ![c].issued = @ + 1]
          /\ st' = Persist(st, new)
    /\ UNCHANGED concurrentVars

\* invoke returns; `appended` collects the messages the caller's completed
\* turns added to what they had loaded.
ParReturn(c) ==
    /\ par[c].pc = "end"
    /\ par' = [par EXCEPT
                  ![c].pc = "idle",
                  ![c].turns = @ + 1,
                  ![c].appended =
                      @ \cup (Ids(par[c].loc.messages) \ par[c].base)]
    /\ UNCHANGED <<st, concurrentVars>>

ConcurrentNext ==
    \E c \in Callers :
        \/ ParGetState(c)
        \/ ParInvoke(c)
        \/ ParProcessInput(c)
        \/ ParGenerateResponse(c)
        \/ ParUpdateState(c)
        \/ ParReturn(c)

SpecConcurrent == ConcurrentInit /\ [][ConcurrentNext]_vars

\* ------------------------------------------------------- properties
\* The scenario of C1 and C2: the first chat call on a new thread, at
\* degradation level 0, with a non-empty message, the model answering its
\* first call with one tool-call request and its second with plain text.
ToolScenario ==
    /\ mode = "chat" /\ turns = 1 /\ attempt = 0
    /\ input = "hi" /\ levelBefore = 0
    /\ script = [tools |-> 1, then |-> "text"]

\* C1: in the tool scenario the workflow visits exactly process_input,
\* advanced_processing, generate_response, tools, generate_response,
\* update_state and then ends.
C1_ToolScenarioPath ==
    (ToolScenario /\ pc = "end") =>
        path = <<"process_input", "advanced_processing", "generate_response",
                 "tools", "generate_response", "update_state">>

\* C2 as stated: in the tool scenario messages is exactly 3 longer at the
\* end of the turn than before it, and user_input is null.
C2_LengthPlus3 ==
    (ToolScenario /\ pc = "end") =>
        /\ Len(st.messages) = lenBefore + 3
        /\ st.user_input = Null

\* C2 as amended: in the tool scenario messages is exactly 4 longer at the
\* end of the turn (user message, assistant tool-call message, tool-result
\* message, final assistant message), and user_input is null.
C2_LengthPlus4 ==
    (ToolScenario /\ pc = "end") =>
        /\ Len(st.messages) = lenBefore + 4
        /\ st.messages[lenBefore + 1].type = "human"
        /\ st.messages[lenBefore + 2].type = "ai"
        /\ st.messages[lenBefore + 2].tool_calls = 1
        /\ st.messages[lenBefore + 3].type = "tool"
        /\ st.messages[lenBefore + 4].type = "ai"
        /\ st.messages[lenBefore + 4].tool_calls = 0
        /\ st.user_input = Null

C2_Witness == ToolScenario /\ pc = "end" /\ last = "update_state"

\* C3: within a workflow invocation, a generate_response whose response
\* carries a tool-call request (while the degradation level allows tools)
\* is followed by the tools node, the tools node is followed by
\* generate_response and by nothing else, and when that generate_response
\* is due the tool-result message is the last of messages, right after the
\* assistant message that requested it.
C3_ToolRoundTrip ==
    /\ ( /\ last = "generate_response" /\ produced = "tool"
         /\ pc \in Nodes \cup {"end"}
         /\ level < 2 )
       => pc = "tools"
    /\ pc = "tools" => last = "generate_response"
    /\ (last = "tools" /\ produced = "tool") =>
        /\ pc \in {"generate_response", "error", "idle"}
        /\ err \in {NoError, GraphRecursionError}
        /\ LET n == Len(st.messages)
           IN /\ n >= 2
              /\ st.messages[n].type = "tool"
              /\ st.messages[n - 1].type = "ai"
              /\ st.messages[n - 1].tool_calls = 1
              /\ st.messages[n - 1].id = st.agent_response.id

C3_Witness ==
    /\ pc = "generate_response" /\ last = "tools" /\ produced = "tool"
    /\ st.messages[Len(st.messages)].type = "tool"

\* C4: chat never raises to its caller; it returns a text.  When the
\* workflow invocation failed after the retries the degradation level is
\* one above its value at the start of the call, clamped at 3, and the text
\* is the simplified response of that new level; otherwise the level is
\* unchanged.
C4_ChatNeverRaises ==
    mode = "chat" =>
        /\ result.kind # "raised"
        /\ pc = "idle" =>
            /\ result.kind \in {"ok", "fallback"}
            /\ result.text # Null
            /\ (err # NoError) <=> (result.kind = "fallback")
            /\ result.kind = "ok" => level = levelBefore
            /\ result.kind = "fallback" =>
                /\ level = (IF levelBefore < 3 THEN levelBefore + 1 ELSE 3)
                /\ result.text =
                    (CASE level = 1 -> "technical difficulties, partial echo"
                       [] level = 2 -> "try rephrasing"
                       [] level = 3 -> "technical issues, try later"
                       [] OTHER -> "technical difficulties, try later")

C4_Witness ==
    /\ mode = "chat" /\ pc = "idle" /\ result.kind = "fallback"
    /\ attempt = cfg_max_retries /\ attempt > 0
    /\ err = GraphRecursionError
    /\ levelBefore = 3 /\ level = 3

\* C5 as stated: a single-turn chat call's workflow run reaches END, and
\* does so after at most max_iterations node visits.
C5_EndWithinMaxIterations ==
    mode = "chat" =>
        /\ pc # "error"
        /\ pc = "end" => steps <= cfg_max_iterations

\* Progress measure of a chat call: workflow invocations made, then node
\* visits of the current one, then whether the invocation is over.
ChatRank ==
    attempt * (RecursionLimit + 2) + steps
        + (IF pc \in {"end", "error"} THEN 1 ELSE 0)

\* C5 as amended: a single-turn chat call always terminates: it makes at
\* most max_retries + 1 workflow invocations, each of at most
\* recursion_limit = 50 node visits, every step of the call either returns
\* to the caller or increases the bounded progress measure, and a call in
\* progress always has a next step.  The bound is not max_iterations: a run
\* that reaches END after a non-empty message has made at least 3 node
\* visits, whatever max_iterations is.
C5_ChatBounded ==
    /\ [](mode = "chat" =>
            /\ steps <= RecursionLimit
            /\ attempt <= cfg_max_retries
            /\ pc \in Nodes \cup {"end", "error", "idle"}
            /\ (pc = "end" /\ input # "") => steps >= 3)
    /\ [][(mode = "chat" /\ pc # "idle") =>
            (pc' = "idle" \/ ChatRank' > ChatRank)]_vars

C5_Witness ==
    /\ mode = "chat" /\ pc = "error" /\ err = GraphRecursionError
    /\ steps = RecursionLimit /\ attempt = cfg_max_retries /\ attempt > 0
    /\ script = [tools |-> 0, then |-> "tool"]

\* C6: with max_iterations = 1 a chat call ends right after its first pass
\* through update_state: process_input is not re-entered.
C6_MaxIterationsOne ==
    (cfg_max_iterations = 1 /\ mode = "chat" /\ last = "update_state") =>
        pc \in {"end", "idle"}

C8_StreamEndsNormally ==
    (mode = "stream" /\ script = Recovered) => pc # "error"

\* C9: reaching the iteration cap or the step ceiling is terminal, not
\* fatal: a facade call whose invocation ran into the step ceiling still
\* ends with a response and raises no error.
C9_CapsAreTerminal ==
    (pc = "idle" /\ turns > 0 /\ err = GraphRecursionError) =>
        result.kind = "ok"

\* C10: after any completed turn metadata.total_messages equals the number
\* of messages of the thread's persisted state.
C10_TotalMessages ==
    (pc = "idle" /\ result.kind = "ok") =>
        st.total_messages = Len(st.messages)

\* C11: on the thread iteration_count is never negative and no step (node
\* execution, start of a later chat or stream_chat call, retry) decreases it.
C11_IterationCountMonotone ==
    /\ [](st.iteration_count >= 0)
    /\ [][st'.iteration_count >= st.iteration_count]_vars

C11_Witness ==
    /\ turns >= 2 /\ pc = "generate_response" /\ last = "process_input"
    /\ st.iteration_count >= 2

\* C12: whenever the model call of generate_response fails, the node
\* returns normally: the workflow proceeds to update_state with a fallback
\* assistant message as agent_response, last_error set and retry_count
\* incremented.
C12_GenerateNeverPropagates ==
    (last = "generate_response" /\ produced \in {"fallback", "raised"}
        /\ err # GraphRecursionError /\ pc # "idle") =>
        /\ pc = "update_state"
        /\ st.agent_response.kind = "msg"
        /\ st.agent_response.tool_calls = 0
        /\ st.agent_response.content
               = (IF level = 0 THEN "having trouble" ELSE SimplifiedText(level))
        /\ st.last_error = "Using fallback response generation"
        /\ st.retry_count >= 1

\* C13: when generate_response has returned, the next node is tools if and
\* only if the pending response carries a tool-call request and the
\* degradation level is below 2, and update_state otherwise; the tools
\* node is never due, and never runs, at level 2 or 3.
C13_ToolsRouting ==
    /\ [](( /\ last = "generate_response" /\ pc \in Nodes
            /\ produced # "raised" ) =>
            /\ pc = "tools" <=>
                   ( /\ st.agent_response.kind = "msg"
                     /\ st.agent_response.tool_calls > 0
                     /\ level < 2 )
            /\ pc # "tools" => pc = "update_state")
    /\ [](pc = "tools" => level < 2)
    /\ [][last' = "tools" /\ steps' # steps => level < 2 /\ level' < 2]_vars

C13_Witness ==
    /\ last = "generate_response" /\ pc = "update_state" /\ level >= 2
    /\ produced = "tool"
    /\ st.agent_response.kind = "msg" /\ st.agent_response.tool_calls > 0

\* A retry_with_fallback call has ended.
RetryEnded == eh.pc \in {"returned", "raised"}
\* The kind of the error its primary raises.
PrimaryKind == classify_error(Raise(eh.primary.error))

\* C14: with max_retries >= 2, a primary that fails on its first two calls
\* with an error of a retried kind, or (the case of the test) on its first
\* call only with Exception("Temporary failure"), and then succeeds makes
\* retry_with_fallback return the success value, with one error_history
\* entry per failure.
C14_RetryThenSuccess ==
    ( /\ RetryEnded /\ eh.config.max_retries >= 2
      /\ \/ eh.primary.fails = 2 /\ PrimaryKind \in retry_on_errors
         \/ /\ eh.primary.fails = 1
            /\ eh.primary.error
                  = [type_name |-> "Exception", text |-> "Temporary failure"] ) =>
        /\ eh.pc = "returned"
        /\ eh.value = "Success!"
        /\ Len(eh.error_history) = eh.primary.fails

C16_FallbackOnExhaustion ==
    /\ eh.pc \in {"loop", "exhausted"} => eh.fallback_calls = 0
    /\ (RetryEnded /\ eh.primary_calls > eh.primary.fails) =>
            /\ eh.pc = "returned" /\ eh.value = "Success!"
            /\ eh.fallback_calls = 0
    /\ (RetryEnded /\ eh.primary_calls <= eh.primary.fails) =>
            CASE eh.fallback = "ok" ->
                    /\ eh.pc = "returned" /\ eh.value = "Fallback result"
                    /\ eh.fallback_calls = 1
              [] eh.fallback = "raises" ->
                    /\ eh.pc = "raised" /\ eh.error = FallbackError
                    /\ eh.fallback_calls = 1
              [] OTHER ->
                    /\ eh.pc = "raised"
                    /\ eh.error = Raise(eh.primary.error)
                    /\ eh.fallback_calls = 0

C16_Witness ==
    /\ eh.pc = "raised" /\ eh.fallback = "raises" /\ eh.error = FallbackError
    /\ eh.primary_calls >= 2 /\ eh.fallback_calls = 1

\* C17: the delay calculate_delay computes, for every attempt index and
\* with jitter on or off, is at most max_delay.
C17_DelayCapped ==
    /\ probe.op = "calculate_delay" => probe.out <= probe.arg.config.max_delay
    /\ eh.delay <= eh.config.max_delay

\* C18: classify_error gives every exception of the test table the kind
\* the table expects: rate_limit for "API rate limit exceeded",
\* network_error for "Connection timeout", validation_error for the
\* ValueError, api_error for "Anthropic API error", unknown_error for
\* "Random unknown error".
C18_TestTable ==
    probe.op = "classify_error" =>
        LET e == probe.arg
        IN /\ e.text = "API rate limit exceeded" => probe.out = "rate_limit"
           /\ e.text = "Connection timeout" => probe.out = "network_error"
           /\ e.text = "Invalid value provided" => probe.out = "validation_error"
           /\ e.text = "Anthropic API error" => probe.out = "api_error"
           /\ e.text = "Random unknown error" => probe.out = "unknown_error"

\* C19: the degradation level always lies in 0..3; increase_degradation
\* raises it by one below 3 and leaves it at 3, decrease_degradation lowers
\* it by one above 0 and leaves it at 0.
C19_LevelClamped ==
    /\ level \in 0..3
    /\ probe.op = "increase_degradation" =>
            /\ level = probe.out
            /\ probe.out = (IF probe.arg = 3 THEN 3 ELSE probe.arg + 1)
    /\ probe.op = "decrease_degradation" =>
            /\ level = probe.out
            /\ probe.out = (IF probe.arg = 0 THEN 0 ELSE probe.arg - 1)

C19_Witness ==
    probe.op = "increase_degradation" /\ probe.arg = 3 /\ level = 3

\* C20: at every level should_use_tools() is true exactly below level 2,
\* should_use_advanced_features() exactly at level 0, and
\* get_simplified_response gives no text at level 0, the apology quoting
\* the first 50 characters of the input at level 1, the rephrasing text at
\* level 2 and the try-later text at level 3.
C20_LevelTable ==
    probe.op = "query" =>
        LET lvl == probe.arg.level
            u == probe.arg.user_input
            r == probe.out.simplified
        IN /\ probe.out.tools = (lvl < 2)
           /\ probe.out.advanced = (lvl = 0)
           /\ ~r.raised
           /\ lvl = 0 => r.text = Null
           /\ lvl = 1 =>
                 /\ r.text = "technical difficulties, partial echo"
                 /\ r.echo = (IF Len(u) <= 50 THEN u
                              ELSE "01234567890123456789012345678901234567890123456789")
           /\ lvl = 2 => r.text = "try rephrasing"
           /\ lvl = 3 => r.text = "technical issues, try later"

C20_Witness ==
    /\ probe.op = "query" /\ probe.arg.level = 1
    /\ Len(probe.arg.user_input) > 50
    /\ Len(probe.out.simplified.echo) = 50

\* C23: for n > max_messages >= 2, truncate_conversation_history keeps
\* exactly max_messages messages, the original first one followed by the
\* last max_messages - 1 in their order, and records truncated = true and
\* original_message_count = n in the context.
C23_TruncateKeeps ==
    probe.op = "truncate_conversation_history" =>
        LET msgs == probe.arg.messages
            n == Len(msgs)
            max_messages == probe.arg.max_messages
            kept == probe.out.messages
        IN (n > max_messages /\ max_messages >= 2) =>
              /\ Len(kept) = max_messages
              /\ kept[1] = msgs[1]
              /\ \A j \in 2..max_messages : kept[j] = msgs[n - max_messages + j]
              /\ probe.out.context.truncated
              /\ probe.out.context.original_message_count = n

C23_Witness ==
    /\ probe.op = "truncate_conversation_history"
    /\ Len(probe.arg.messages) = 10 /\ probe.arg.max_messages = 5
    /\ Len(probe.out.messages) = 5

\* C24: once clear_conversation has reported success the thread holds no
\* messages and no state: get_conversation_history gives the empty list
\* and the next chat starts from a new initial state.
C24_ClearRemoves ==
    /\ (probe.op = "clear_conversation" /\ probe.out) =>
            /\ st.messages = <<>>
            /\ LoadState(st, "hi", FALSE) = create_initial_state("hi")
    /\ (probe.op = "get_conversation_history" /\ probe.after_clear) =>
            probe.out = <<>>

\* C30: after a pass through process_input with a pending input the
\* thread's messages number at most max_conversation_history.
C30_HistoryBounded ==
    (last = "process_input" /\ input \notin {Null, ""}) =>
        Len(st.messages) <= max_conversation_history

\* C21: every failure caught inside the facade raises the degradation
\* level by one, clamped at 3: when generate_response answers with its
\* canned fallback, and when chat falls back after the invocation failed.
C21_FailureRaisesLevel ==
    /\ [][(steps' = steps + 1 /\ last' = "generate_response"
            /\ produced' = "fallback")
           => level' = increase_degradation(level)]_vars
    /\ [][(mode = "chat" /\ pc = "error" /\ pc' = "idle")
           => level' = increase_degradation(level)]_vars

\* C22: a chat call whose invocation returned without falling back lowers
\* the degradation level by one, clamped at 0.
C22_SuccessLowersLevel ==
    (mode = "chat" /\ pc = "idle" /\ result.kind = "ok")
        => level = decrease_degradation(levelBefore)

\* C26 as stated: a chat whose invocation succeeded returns the content
\* of the last assistant message whose text content is not empty, skipping
\* assistant messages that only request tools; without such a message it
\* returns agent_response, and 'No response generated.' when that is empty.
C26_ReturnValueNonEmpty ==
    (mode = "chat" /\ pc = "idle" /\ result.kind = "ok") =>
        LET msgs == st.messages
            texts == {k \in 1..Len(msgs) :
                         msgs[k].type = "ai" /\ msgs[k].content # ""}
        IN IF texts # {}
           THEN \E k \in texts :
                   /\ \A j \in texts : j <= k
                   /\ result.text = msgs[k].content
           ELSE IF st.agent_response.content # ""
           THEN result.text = st.agent_response.content
           ELSE result.text = "No response generated."

\* C26: a chat whose invocation succeeded returns the content of the last
\* assistant message whose text holds a character that is not a blank,
\* skipping assistant messages that only request tools, that are empty or
\* that hold blanks only; without such a message it returns agent_response,
\* and 'No response generated.' when that is empty.
C26_ReturnValue ==
    (mode = "chat" /\ pc = "idle" /\ result.kind = "ok") =>
        LET msgs == st.messages
            texts == {k \in 1..Len(msgs) :
                         /\ msgs[k].type = "ai"
                         /\ \E i \in 1..Len(msgs[k].content) :
                                SubSeq(msgs[k].content, i, i) # " "}
        IN IF texts # {}
           THEN \E k \in texts :
                   /\ \A j \in texts : j <= k
                   /\ result.text = msgs[k].content
           ELSE IF st.agent_response.content # ""
           THEN result.text = st.agent_response.content
           ELSE result.text = "No response generated."

\* An assistant message that only requests a tool and one of blanks come
\* after the message whose text is returned.
C26_Witness ==
    /\ mode = "chat" /\ pc = "idle" /\ result.kind = "ok"
    /\ Len(st.messages) = 4
    /\ st.messages[2].type = "ai" /\ result.text = st.messages[2].content
    /\ result.text = "reply"
    /\ st.messages[3].type = "ai" /\ st.messages[3].tool_calls > 0
    /\ st.messages[4].type = "ai" /\ st.messages[4].content = " "

\* C28: a pass through process_input on a valid state adds exactly one to
\* iteration_count, with a pending user input and without one.
C28_IterationCountPlusOne ==
    [][(steps' = steps + 1 /\ last' = "process_input" /\ validate_state(st))
       => st'.iteration_count = st.iteration_count + 1]_vars

\* C29: a turn started with a non-empty message visits advanced_processing
\* right after process_input, before its first generate_response.
C29_AdvancedAfterInput ==
    (input \notin {Null, ""} /\ Len(path) >= 2 /\ path[1] = "process_input")
        => path[2] = "advanced_processing"

\* C27: a node entered with a state that fails validate_state raises
\* nothing, sets last_error, adds one to retry_count and leaves
\* iteration_count unchanged; process_input and update_state leave the
\* messages unchanged, generate_response returns its fallback response.
C27_ValidationNeverAborts ==
    [][(/\ steps = 0 /\ steps' = 1 /\ ~validate_state(st)
        /\ last' \in {"process_input", "generate_response", "update_state"}) =>
          /\ pc' # "error"
          /\ st'.last_error # Null
          /\ st'.retry_count = st.retry_count + 1
          /\ st'.iteration_count = st.iteration_count
          /\ last' \in {"process_input", "update_state"}
                => st'.messages = st.messages
          /\ last' = "generate_response"
                => /\ produced' = "fallback"
                   /\ st'.agent_response.kind = "msg"
                   /\ st'.agent_response.id = FreshId(st)]_vars

\* C25: the first call on thread B runs as it does when no call was made
\* on thread A before it: a response that requests a tool is routed to
\* tools, and a chat that falls back answers at degradation level 1.
C25_ThreadsIndependent ==
    (thread.id = "B" /\ turns = thread.calls_before + 1) =>
        /\ (/\ last = "generate_response" /\ produced = "tool"
            /\ pc \in {"tools", "update_state"}) => pc = "tools"
        /\ (mode = "chat" /\ pc = "idle" /\ result.kind = "fallback")
              => result = FallbackChatResult(1, input)

\* C40: truncate_conversation_history never lengthens the history: for
\* max_messages >= 1 the list returned has at most max_messages entries and
\* at most as many as the input; an input of at most max_messages entries
\* is returned unchanged, the context included.
C40_TruncateNeverLengthens ==
    probe.op = "truncate_conversation_history" =>
        LET msgs == probe.arg.messages
            max_messages == probe.arg.max_messages
            kept == probe.out.messages
        IN /\ Len(kept) <= max_messages \/ Len(msgs) <= max_messages
           /\ Len(kept) <= Len(msgs)
           /\ Len(msgs) <= max_messages => probe.out = st

\* C31: within a turn messages is append-only: after every node step
\* other than a truncating process_input the messages before the step are
\* a prefix of the messages after it, and no message occurs twice.
C31_AppendOnly ==
    /\ [][(/\ steps' = steps + 1
            /\ ~(/\ last' = "process_input"
                 /\ Len(st.messages) >= max_conversation_history))
           => /\ Len(st'.messages) >= Len(st.messages)
              /\ SubSeq(st'.messages, 1, Len(st.messages)) = st.messages]_vars
    /\ [](\A j, k \in 1..Len(st.messages) :
              st.messages[j].id = st.messages[k].id => j = k)

\* update_state has appended a response that requests a tool and that
\* generate_response had put into messages already.
C31_Witness ==
    /\ last = "update_state" /\ produced = "tool" /\ level >= 2
    /\ input = "hi"
    /\ Len(st.messages) = lenBefore + 2
    /\ st.messages[Len(st.messages)].type = "ai"
    /\ st.messages[Len(st.messages)].tool_calls > 0

\* C32: after an update_state pass that found a pending response,
\* user_input is null, agent_response is the text of that response,
\* last_error is null and retry_count is 0, also when generate_response
\* fell back before it.
C32_UpdateStateResets ==
    [][(steps' = steps + 1 /\ last' = "update_state" /\ HasResponse(st))
       => /\ st'.user_input = Null
          /\ st'.agent_response = StrResponse(st.agent_response.content)
          /\ st'.last_error = Null
          /\ st'.retry_count = 0]_vars

\* generate_response fell back, leaving its error annotation, and
\* update_state found a response.
C32_Witness ==
    /\ last = "update_state" /\ produced = "fallback"
    /\ st.agent_response.kind = "str" /\ st.agent_response.content # ""
    /\ st.last_error = Null /\ st.retry_count = 0 /\ st.user_input = Null

\* C33: retry_with_fallback calls the primary at most max_retries + 1
\* times.  When every attempt fails with an error of a retried kind it has
\* called the primary max_retries + 1 times, slept max_retries times and
\* logged max_retries + 1 errors with attempt indices 0..max_retries when
\* the loop is left, and the fallback is not called before.
C33_AttemptsAndSleeps ==
    /\ eh.primary_calls <= eh.config.max_retries + 1
    /\ eh.sleeps <= eh.config.max_retries
    /\ ( /\ eh.pc \in {"exhausted", "returned", "raised"}
         /\ eh.primary.fails > eh.config.max_retries
         /\ PrimaryKind \in retry_on_errors ) =>
            /\ eh.primary_calls = eh.config.max_retries + 1
            /\ eh.sleeps = eh.config.max_retries
            /\ Len(eh.error_history) = eh.config.max_retries + 1
            /\ \A i \in 1..Len(eh.error_history) :
                   eh.error_history[i].attempt = i - 1
    /\ ( /\ eh.pc = "loop"
         /\ eh.primary.fails > eh.config.max_retries
         /\ PrimaryKind \in retry_on_errors ) =>
            /\ eh.fallback_calls = 0
            /\ eh.sleeps = eh.primary_calls

C33_Witness ==
    /\ eh.pc = "returned" /\ eh.value = "Fallback result"
    /\ eh.config.max_retries = 2 /\ eh.primary.fails = 3
    /\ PrimaryKind \in retry_on_errors
    /\ eh.primary_calls = 3 /\ eh.sleeps = 2 /\ Len(eh.error_history) = 3

\* C38: in a run started by chat or stream_chat the state satisfies
\* validate_state whenever process_input, generate_response or update_state
\* is entered: every entry of messages is a message, iteration_count is
\* not negative and the metadata has its required fields.
C38_ValidAtNodeEntry ==
    pc \in {"process_input", "generate_response", "update_state"} =>
        /\ validate_state(st)
        /\ \A k \in 1..Len(st.messages) :
               st.messages[k].type \in {"human", "ai", "tool"}

\* The loop-back pass of a multi-turn run on a thread that had a turn
\* before enters process_input.
C38_Witness ==
    /\ pc = "process_input" /\ mode = "stream" /\ steps >= 3 /\ turns >= 2
    /\ st.iteration_count >= 1 /\ Len(st.messages) >= 3
    /\ validate_state(st)

\* The user messages with the text of the call's message among those
\* added to the thread since the call started.
UserMessagesAdded ==
    {k \in (lenBefore + 1)..Len(st.messages) :
        st.messages[k].type = "human" /\ st.messages[k].content = input}

\* C35: when a chat call with a non-empty message has ended, the thread's
\* messages hold that message exactly once more than before the call, also
\* when the retry wrapper of chat ran the invocation again.
C35_UserMessageOnce ==
    (mode = "chat" /\ pc = "idle" /\ input \notin {Null, ""})
        => Cardinality(UserMessagesAdded) = 1

\* C36: the text a successful chat call returns is the content of an
\* assistant message added to the thread during that call, also when the
\* only model response of the turn requests tools, has no text, and is
\* routed to update_state because the degradation level is 2 or more.
C36_ReplyOfThisTurn ==
    (mode = "chat" /\ pc = "idle" /\ result.kind = "ok") =>
        \E k \in (lenBefore + 1)..Len(st.messages) :
            /\ st.messages[k].type = "ai"
            /\ st.messages[k].id = result.id
            /\ st.messages[k].content = result.text

\* C37: in the state a turn that ran to its end leaves for the thread,
\* every assistant message that requests tools is directly followed by a
\* tool result, and no message occurs twice, at every degradation level.
C37_ToolCallsAnswered ==
    (pc = "idle" /\ result.kind = "ok") =>
        /\ \A k \in 1..Len(st.messages) :
               (st.messages[k].type = "ai" /\ st.messages[k].tool_calls > 0)
                   => /\ k < Len(st.messages)
                      /\ st.messages[k + 1].type = "tool"
        /\ \A j, k \in 1..Len(st.messages) :
               st.messages[j] = st.messages[k] => j = k

\* C39: the degradation level of an agent stays within 0..3 under every
\* interleaving of increase_degradation and decrease_degradation calls made
\* in parallel.
C39_LevelInRange ==
    level \in 0..max_degradation_level

\* C34: when the turns on a thread are serialized (no chat call reads the
\* thread's state while another call on it is under way), every message a
\* completed turn appended is in the thread's persisted messages, and so
\* in the state the next turn loads.
C34_SerializedKeepsMessages ==
    (\A c \in Callers : ~par[c].overlapped) =>
        /\ \A c \in Callers : par[c].appended \subseteq Ids(st.messages)
        /\ \A c, d \in Callers :
               par[d].pc \notin {"idle", "invoke"}
                   => par[c].appended \subseteq Ids(par[d].loc.messages)

\* C34, the lost update: two calls that overlapped have both returned and
\* the persisted messages lack a message one of them appended.
C34_Witness ==
    /\ \A c \in Callers : par[c].pc = "idle" /\ par[c].turns = 1
    /\ \E c \in Callers : par[c].overlapped
    /\ \E c \in Callers : ~(par[c].appended \subseteq Ids(st.messages))

====
